---- MODULE Spec2Model ----
(***************************************************************************)
(* MacroLog: the calculate_servings view of accounts/views.py, with the    *)
(* Food and Person tables it reads and writes.                             *)
(*                                                                         *)
(* Numbers.  The view works on Decimal fields with one decimal place and   *)
(* on Python floats.  The model keeps them exact as integers:              *)
(*   - a macro coefficient or a daily target is held in tenths of a gram   *)
(*     (DecimalField(decimal_places=1)): 25.0 g is 250;                    *)
(*   - a serving quantity is held in units of 1/SERVING_SCALE serving, so  *)
(*     that the display threshold 0.001 is THRESHOLD units and values at,  *)
(*     below and above it exist;                                           *)
(*   - a macro amount (servings x coefficient, a remaining budget, a       *)
(*     total, a goal) is held in their product unit, 1/(10*SERVING_SCALE)  *)
(*     gram.  SERVING_SCALE is a multiple of 3 so that target / 3.0 is     *)
(*     exact.                                                              *)
(***************************************************************************)
EXTENDS Integers, Sequences, FiniteSets, TLC

VARIABLES
    SCIPY_AVAILABLE,  \* module flag set by the import at views.py:12-16
    catalog,          \* the Food table: a set of records
    people,           \* the Person table: a set of records
    pc,               \* per request: the handler's position
    person_name,      \* per request: the URL argument
    body,             \* per request: request.body
    local,            \* per request: the handler's local variables
    response,         \* per request: what the handler returned
    solverCalls,      \* per request: number of calls of minimize
    parsed,           \* per request: json.loads has run
    touched           \* per request: Food.objects has been used

vars == <<SCIPY_AVAILABLE, catalog, people, pc, person_name, body, local,
          response, solverCalls, parsed, touched>>

(***************************************************************************)
(* Resolution and bounds                                                   *)
(***************************************************************************)
THRESHOLD_DENOM == 1000
SERVING_SCALE == 3 * THRESHOLD_DENOM
\* "servings > 0.001" compares against this many serving units
THRESHOLD == SERVING_SCALE \div THRESHOLD_DENOM
PENALTY == 1000

\* the solver's search grid: 0..MaxTiny units, and 1..MaxWhole whole servings
MaxTiny == 3
MaxWhole == 2
\* whole servings a user may fix for a breakfast or lunch entry
MaxFixedServings == 2

Requests == {"r1", "r2"}

(***************************************************************************)
(* Nullable decimals: <<>> is None, <<v>> is Decimal(v / 10)               *)
(***************************************************************************)
None == <<>>
Dec(v) == <<v>>
\* Python truthiness of a nullable Decimal: None and Decimal("0") are falsy
Truthy(d) == d # None /\ d[1] # 0
\* float(d) of a set target, in amount units
FloatOf(d) == d[1] * SERVING_SCALE

(***************************************************************************)
(* The Food table                                                          *)
(***************************************************************************)
FoodRec(id, name, active, p, c, f, sname) ==
    [id |-> id, name |-> name, is_active |-> active,
     protein_g_per_serving |-> p, carbs_g_per_serving |-> c,
     fats_g_per_serving |-> f, serving_name |-> sname]

Egg == FoodRec(1, "Egg", TRUE, 60, 10, 50, "1 egg")
Concentrate == FoodRec(2, "Concentrate", TRUE, 3000, 0, 3000, "")
OldBread == FoodRec(3, "Old Bread", FALSE, 30, 150, 10, "1 slice")
BaseFoods == {Egg, Concentrate, OldBread}

\* defaults of the two get_or_create calls
ProteinPowderDefaults(id) ==
    FoodRec(id, "Protein Powder", TRUE, 250, 30, 10, "1 scoop")
HeavyCreamDefaults(id) ==
    FoodRec(id, "Heavy Cream", TRUE, 10, 10, 110, "1 oz (about 2 tbsp)")

InitialCatalogs ==
    { BaseFoods,
      BaseFoods \cup {ProteinPowderDefaults(4), HeavyCreamDefaults(5)} }

MaxOf(S) == CHOOSE m \in S : \A k \in S : k <= m
\* the auto-increment primary key of a new row
NextId(cat) == MaxOf({0} \cup {fd.id : fd \in cat}) + 1

\* Food.objects.get(id=..., is_active=True): the set is empty on DoesNotExist
GetActive(cat, id) == {fd \in cat : fd.id = id /\ fd.is_active}
ByName(cat, name) == {fd \in cat : fd.name = name}

(***************************************************************************)
(* The Person table                                                        *)
(***************************************************************************)
PersonRec(name, p, c, f) ==
    [name |-> name, protein_grams |-> p, carbs_grams |-> c, fats_grams |-> f]

TargetChoices ==
    { <<None, Dec(10), Dec(50)>>,      \* protein target unset
      <<Dec(60), None, Dec(50)>>,      \* carbohydrate target unset
      <<Dec(120), Dec(30), Dec(100)>>, \* two eggs, with carbohydrate to spare
      <<Dec(60), Dec(0), Dec(50)>>,    \* carbohydrate target 0
      <<Dec(61), Dec(10), Dec(51)>>,   \* one egg and 0.1 g more
      <<Dec(599), Dec(10), Dec(499)>>, \* 0.1 g short of one egg
      <<Dec(310), Dec(40), Dec(60)>>,  \* one egg and one scoop
      <<Dec(310), Dec(30), Dec(60)>> } \* the same, carbohydrate ceiling too low

PersonNames == {"ann", "zed"}

(***************************************************************************)
(* Request payloads                                                        *)
(***************************************************************************)
\* item["servings"]: a JSON number, or a string float() cannot parse
NumServings(v) == [t |-> "num", v |-> v]
BadServings == [t |-> "str", v |-> 0]
FixedItem(id, s) == [food_id |-> id, servings |-> s]

FixedServings == {NumServings(k * SERVING_SCALE) : k \in 1..MaxFixedServings}

BreakfastChoices ==
    {<<>>} \cup {<<FixedItem(1, s)>> : s \in FixedServings}
           \cup {<<FixedItem(3, NumServings(SERVING_SCALE))>>,
                 <<FixedItem(1, BadServings)>>}
LunchChoices == {<<>>, <<FixedItem(1, NumServings(SERVING_SCALE))>>}

\* an element of data["dinner"]: a JSON integer or something else
IntItem(v) == [t |-> "int", v |-> v]
StrItem == [t |-> "str", v |-> 0]
DinnerChoices ==
    { <<>>, <<StrItem>>, <<IntItem(3)>>, <<IntItem(9)>>,
      <<IntItem(1)>>, <<IntItem(4)>>, <<IntItem(5)>>,
      <<IntItem(1), IntItem(2)>>, <<IntItem(1), IntItem(4)>>,
      <<IntItem(4), IntItem(5)>> }

InvalidJSON == [valid |-> FALSE, breakfast |-> <<>>, lunch |-> <<>>, dinner |-> <<>>]
Payload(b, l, d) == [valid |-> TRUE, breakfast |-> b, lunch |-> l, dinner |-> d]

Bodies ==
    {InvalidJSON} \cup
    {Payload(b, l, d) : b \in BreakfastChoices, l \in LunchChoices, d \in DinnerChoices}

\* the payloads of the concurrent specification
SmallBodies ==
    {InvalidJSON} \cup
    {Payload(b, <<>>, d) :
        b \in {<<>>, <<FixedItem(1, NumServings(SERVING_SCALE))>>},
        d \in {<<>>, <<IntItem(1)>>, <<IntItem(4)>>}}

(***************************************************************************)
(* Responses                                                               *)
(***************************************************************************)
NoResponse == [kind |-> "none"]
Http404 == [kind |-> "http404"]
ErrorResponse(msg, detail) == [kind |-> "error", error |-> msg, detail |-> detail]

ERR_SCIPY == "scipy is required for serving calculations. Install it with: pip install scipy"
ERR_TARGETS == "Person must have protein, carbs, and fats targets set."
ERR_JSON == "Invalid JSON data"
ERR_NO_DINNER == "Please select at least one food for dinner."
ERR_NO_VALID == "No valid foods selected for dinner."
ERR_ONLY_SUPPLEMENTS == "Please select at least one food for at least one meal."
ERR_OPTIMIZATION == "Optimization failed: "
ERR_CALCULATION == "Calculation error: "

NoLocal == [set |-> FALSE]

Init ==
    /\ SCIPY_AVAILABLE \in BOOLEAN
    /\ catalog \in InitialCatalogs
    /\ \E t \in TargetChoices : people = {PersonRec("ann", t[1], t[2], t[3])}
    /\ pc = [r \in Requests |-> "idle"]
    /\ person_name = [r \in Requests |-> ""]
    /\ body = [r \in Requests |-> InvalidJSON]
    /\ local = [r \in Requests |-> NoLocal]
    /\ response = [r \in Requests |-> NoResponse]
    /\ solverCalls = [r \in Requests |-> 0]
    /\ parsed = [r \in Requests |-> FALSE]
    /\ touched = [r \in Requests |-> FALSE]

\* a POST to calculate/<person_name>/ arrives at a free worker
Receive(r, names, bodies) ==
    /\ pc[r] = "idle"
    /\ \E n \in names, b \in bodies :
        /\ person_name' = [person_name EXCEPT ![r] = n]
        /\ body' = [body EXCEPT ![r] = b]
    /\ pc' = [pc EXCEPT ![r] = "entry"]
    /\ UNCHANGED <<SCIPY_AVAILABLE, catalog, people, local, response,
                   solverCalls, parsed, touched>>

\* return JsonResponse(...) / raise Http404
Respond(r, resp) ==
    /\ response' = [response EXCEPT ![r] = resp]
    /\ pc' = [pc EXCEPT ![r] = "done"]

\* faulty variant: only the protein target is tested
TargetsMissingProteinOnly(person) == ~Truthy(person.protein_grams)

\* "not person.protein_grams or not person.carbs_grams or not person.fats_grams"
TargetsMissing(person) ==
    \/ ~Truthy(person.protein_grams)
    \/ ~Truthy(person.carbs_grams)
    \/ ~Truthy(person.fats_grams)

\* the scipy guard, get_object_or_404, the targets guard and json.loads
CheckAndLoad(r) ==
    /\ pc[r] = "entry"
    /\ LET found == {p \in people : p.name = person_name[r]} IN
       IF ~SCIPY_AVAILABLE THEN
            /\ Respond(r, ErrorResponse(ERR_SCIPY, ""))
            /\ UNCHANGED <<local, parsed>>
       ELSE IF found = {} THEN
            /\ Respond(r, Http404)
            /\ UNCHANGED <<local, parsed>>
       ELSE LET person == CHOOSE p \in found : TRUE IN
            IF TargetsMissing(person) THEN
                /\ Respond(r, ErrorResponse(ERR_TARGETS, ""))
                /\ UNCHANGED <<local, parsed>>
            ELSE IF ~body[r].valid THEN
                /\ Respond(r, ErrorResponse(ERR_JSON, ""))
                /\ parsed' = [parsed EXCEPT ![r] = TRUE]
                /\ UNCHANGED local
            ELSE
                /\ local' = [local EXCEPT ![r] = [set |-> TRUE, person |-> person]]
                /\ parsed' = [parsed EXCEPT ![r] = TRUE]
                /\ pc' = [pc EXCEPT ![r] = "get_protein_powder"]
                /\ UNCHANGED response
    /\ UNCHANGED <<SCIPY_AVAILABLE, catalog, people, person_name, body,
                   solverCalls, touched>>

(***************************************************************************)
(* Arithmetic helpers                                                      *)
(***************************************************************************)
RECURSIVE SumTo(_, _)
SumTo(f, n) == IF n = 0 THEN 0 ELSE f[n] + SumTo(f, n - 1)
\* the accumulation loops "total += ..." over a list
Total(seq) == SumTo(seq, Len(seq))

Triple(p, c, f) == [protein |-> p, carbs |-> c, fats |-> f]
\* servings x the three per-serving coefficients of a food
MacrosOf(food, servings) ==
    Triple(servings * food.protein_g_per_serving,
           servings * food.carbs_g_per_serving,
           servings * food.fats_g_per_serving)
AddTriple(a, b) ==
    Triple(a.protein + b.protein, a.carbs + b.carbs, a.fats + b.fats)
SumTriples(seq) ==
    Triple(Total([i \in 1..Len(seq) |-> seq[i].protein]),
           Total([i \in 1..Len(seq) |-> seq[i].carbs]),
           Total([i \in 1..Len(seq) |-> seq[i].fats]))

(***************************************************************************)
(* Food.objects.get_or_create(name=..., defaults=...)                      *)
(***************************************************************************)
\* faulty variant: a plain create, whether or not the name is taken
AlwaysCreate(cat, name, defaults) == defaults

\* the row the call returns: the one of that name, or a new one from the
\* defaults when there is none
GetOrCreate(cat, name, defaults) ==
    IF ByName(cat, name) # {} THEN CHOOSE fd \in ByName(cat, name) : TRUE
    ELSE defaults

GetOrCreateProteinPowder(r) ==
    /\ pc[r] = "get_protein_powder"
    /\ LET row == GetOrCreate(catalog, "Protein Powder",
                              ProteinPowderDefaults(NextId(catalog)))
       IN /\ catalog' = catalog \cup {row}
          /\ local' = [local EXCEPT ![r] =
                [set |-> TRUE, person |-> local[r].person, protein_powder |-> row]]
    /\ touched' = [touched EXCEPT ![r] = TRUE]
    /\ pc' = [pc EXCEPT ![r] = "get_heavy_cream"]
    /\ UNCHANGED <<SCIPY_AVAILABLE, people, person_name, body, response,
                   solverCalls, parsed>>

GetOrCreateHeavyCream(r) ==
    /\ pc[r] = "get_heavy_cream"
    /\ LET row == GetOrCreate(catalog, "Heavy Cream",
                              HeavyCreamDefaults(NextId(catalog)))
       IN /\ catalog' = catalog \cup {row}
          /\ local' = [local EXCEPT ![r] =
                [set |-> TRUE, person |-> local[r].person,
                 protein_powder |-> local[r].protein_powder, heavy_cream |-> row]]
    /\ pc' = [pc EXCEPT ![r] = "collect"]
    /\ UNCHANGED <<SCIPY_AVAILABLE, people, person_name, body, response,
                   solverCalls, parsed, touched>>

(***************************************************************************)
(* Collecting the meals and the remaining budget                           *)
(***************************************************************************)
\* one pass of the breakfast (or lunch) loop: an entry is kept when the food
\* is found active and float(item["servings"]) parses, and skipped otherwise
ParseFixed(cat, items) ==
    LET Accepted(item) ==
            /\ GetActive(cat, item.food_id) # {}
            /\ item.servings.t = "num"
        kept == SelectSeq(items, Accepted)
    IN [i \in 1..Len(kept) |->
            [food |-> CHOOSE fd \in GetActive(cat, kept[i].food_id) : TRUE,
             servings |-> kept[i].servings.v]]

\* the dinner loop keeps the elements that are ints
ParseDinnerIds(items) ==
    LET IsInt(item) == item.t = "int"
        kept == SelectSeq(items, IsInt)
    IN [i \in 1..Len(kept) |-> kept[i].v]

\* faulty variant: the loop runs over the breakfast list alone
ConsumedBreakfastOnly(breakfast_foods_servings, lunch_foods_servings) ==
    SumTriples([i \in 1..Len(breakfast_foods_servings) |->
        MacrosOf(breakfast_foods_servings[i].food,
                 breakfast_foods_servings[i].servings)])

\* consumed_protein / consumed_carbs / consumed_fats
Consumed(breakfast_foods_servings, lunch_foods_servings) ==
    LET both == breakfast_foods_servings \o lunch_foods_servings
    IN SumTriples([i \in 1..Len(both) |-> MacrosOf(both[i].food, both[i].servings)])

\* faulty variant: a budget below zero is raised to zero
RemainingClamped(person, consumed) ==
    LET Floor0(v) == IF v < 0 THEN 0 ELSE v IN
    Triple(Floor0(FloatOf(person.protein_grams) - consumed.protein),
           Floor0(FloatOf(person.carbs_grams) - consumed.carbs),
           Floor0(FloatOf(person.fats_grams) - consumed.fats))

\* remaining_protein / remaining_carbs / remaining_fats
Remaining(person, consumed) ==
    Triple(FloatOf(person.protein_grams) - consumed.protein,
           FloatOf(person.carbs_grams) - consumed.carbs,
           FloatOf(person.fats_grams) - consumed.fats)

\* "Get dinner foods": the ids found active, in order
DinnerFoods(cat, dinner_food_ids) ==
    LET Found(id) == GetActive(cat, id) # {}
        kept == SelectSeq(dinner_food_ids, Found)
    IN [i \in 1..Len(kept) |-> CHOOSE fd \in GetActive(cat, kept[i]) : TRUE]

\* all_foods = dinner_foods.copy() plus the two supplements
AllFoods(dinner_foods, protein_powder, heavy_cream) ==
    dinner_foods \o <<protein_powder, heavy_cream>>

\* "if len(all_foods) == 2:  # Only supplements"
OnlySupplements(all_foods) == Len(all_foods) = 2

Collect(r) ==
    /\ pc[r] = "collect"
    /\ LET l == local[r]
           breakfast_foods_servings == ParseFixed(catalog, body[r].breakfast)
           lunch_foods_servings == ParseFixed(catalog, body[r].lunch)
           dinner_food_ids == ParseDinnerIds(body[r].dinner)
           consumed == Consumed(breakfast_foods_servings, lunch_foods_servings)
           remaining == Remaining(l.person, consumed)
           dinner_foods == DinnerFoods(catalog, dinner_food_ids)
           all_foods == AllFoods(dinner_foods, l.protein_powder, l.heavy_cream)
       IN IF dinner_food_ids = <<>> THEN
               /\ Respond(r, ErrorResponse(ERR_NO_DINNER, ""))
               /\ UNCHANGED local
          ELSE IF dinner_foods = <<>> THEN
               /\ Respond(r, ErrorResponse(ERR_NO_VALID, ""))
               /\ UNCHANGED local
          ELSE IF OnlySupplements(all_foods) THEN
               /\ Respond(r, ErrorResponse(ERR_ONLY_SUPPLEMENTS, ""))
               /\ UNCHANGED local
          ELSE
               /\ local' = [local EXCEPT ![r] =
                    [set |-> TRUE, person |-> l.person,
                     protein_powder |-> l.protein_powder,
                     heavy_cream |-> l.heavy_cream,
                     breakfast_foods_servings |-> breakfast_foods_servings,
                     lunch_foods_servings |-> lunch_foods_servings,
                     remaining |-> remaining,
                     dinner_foods |-> dinner_foods,
                     all_foods |-> all_foods]]
               /\ pc' = [pc EXCEPT ![r] = "solve"]
               /\ UNCHANGED response
    /\ UNCHANGED <<SCIPY_AVAILABLE, catalog, people, person_name, body,
                   solverCalls, parsed, touched>>

(***************************************************************************)
(* The optimization problem                                                *)
(***************************************************************************)
\* 1-based positions of the two supplements in all_foods
ProteinPowderIdx(dinner_foods) == Len(dinner_foods) + 1
HeavyCreamIdx(dinner_foods) == Len(dinner_foods) + 2

\* faulty variant: the penalty leaves the protein powder out
objective_heavy_cream_only(servings, protein_powder_idx, heavy_cream_idx) ==
    PENALTY * servings[heavy_cream_idx]

\* def objective(servings)
objective(servings, protein_powder_idx, heavy_cream_idx) ==
    PENALTY * (servings[protein_powder_idx] + servings[heavy_cream_idx])

\* def constraint_protein(servings)
constraint_protein(servings, all_foods, target_protein) ==
    Total([i \in 1..Len(all_foods) |->
            servings[i] * all_foods[i].protein_g_per_serving]) - target_protein

\* faulty variant: the difference is taken the other way round, which makes
\* the target a floor
constraint_carbs_min(servings, all_foods, target_carbs) ==
    Total([i \in 1..Len(all_foods) |->
            servings[i] * all_foods[i].carbs_g_per_serving]) - target_carbs

\* def constraint_carbs_max(servings)
constraint_carbs_max(servings, all_foods, target_carbs) ==
    target_carbs - Total([i \in 1..Len(all_foods) |->
            servings[i] * all_foods[i].carbs_g_per_serving])

\* def constraint_fats(servings)
constraint_fats(servings, all_foods, target_fats) ==
    Total([i \in 1..Len(all_foods) |->
            servings[i] * all_foods[i].fats_g_per_serving]) - target_fats

\* constraints = [eq protein, ineq carbs, eq fats]: SLSQP takes an "eq"
\* function to be 0 and an "ineq" function to be >= 0
Constraints(servings, all_foods, target) ==
    /\ constraint_protein(servings, all_foods, target.protein) = 0
    /\ constraint_carbs_max(servings, all_foods, target.carbs) >= 0
    /\ constraint_fats(servings, all_foods, target.fats) = 0

\* x0 = [0.5] * len(all_foods)
X0(n) == [i \in 1..n |-> SERVING_SCALE \div 2]

\* faulty variant: no lower bound
BoundsUnbounded(n) == [i \in 1..n |-> [lower |-> None, upper |-> None]]

\* bounds = [(0, None)] * len(all_foods); a bound is <<v>> or None
Bounds(n) == [i \in 1..n |-> [lower |-> Dec(0), upper |-> None]]
WithinBound(v, b) ==
    /\ b.lower = None \/ v >= b.lower[1]
    /\ b.upper = None \/ v <= b.upper[1]

\* the serving values the search ranges over
SearchValues ==
    ((0 - MaxTiny)..MaxTiny) \cup {k * SERVING_SCALE : k \in 1..MaxWhole}

SolverFailures ==
    {"Positive directional derivative for linesearch",
     "Iteration limit reached"}
SolverSuccess == "Optimization terminated successfully"
SolverException == "failed in converting 8th argument `xl' of _slsqp.slsqp to C/Fortran array"

\* minimize(objective, x0, method="SLSQP", bounds=..., constraints=...,
\* options={"maxiter": 1000}): the results the call can come back with.
\* A successful result is a point within the bounds that meets the
\* constraints and that no such point beats on the objective; the call may
\* also report failure with a message, or raise.
Minimize(all_foods, target, protein_powder_idx, heavy_cream_idx) ==
    LET n == Len(all_foods)
        bounds == Bounds(n)
        box == [i \in 1..n |-> {v \in SearchValues : WithinBound(v, bounds[i])}]
        feasible == {x \in [1..n -> UNION {box[i] : i \in 1..n}] :
                        /\ \A i \in 1..n : x[i] \in box[i]
                        /\ Constraints(x, all_foods, target)}
        best == {x \in feasible : \A y \in feasible :
                    objective(x, protein_powder_idx, heavy_cream_idx)
                        <= objective(y, protein_powder_idx, heavy_cream_idx)}
    IN {[outcome |-> "result", success |-> TRUE, x |-> x, message |-> SolverSuccess]
            : x \in best}
       \cup {[outcome |-> "result", success |-> FALSE, x |-> X0(n), message |-> m]
            : m \in SolverFailures}
       \cup {[outcome |-> "raised", success |-> FALSE, x |-> X0(n),
              message |-> SolverException]}

\* faulty variant: the solver's message is dropped
OptimizationFailedNoMessage(result) == ErrorResponse(ERR_OPTIMIZATION, "")

\* return JsonResponse({"error": f"Optimization failed: {result.message}"})
OptimizationFailed(result) == ErrorResponse(ERR_OPTIMIZATION, result.message)
\* return JsonResponse({"error": f"Calculation error: {str(e)}"})
CalculationError(message) == ErrorResponse(ERR_CALCULATION, message)

\* the locals with "result = minimize(...)" assigned
WithResult(l, result) ==
    [set |-> TRUE, person |-> l.person,
     protein_powder |-> l.protein_powder, heavy_cream |-> l.heavy_cream,
     breakfast_foods_servings |-> l.breakfast_foods_servings,
     lunch_foods_servings |-> l.lunch_foods_servings,
     remaining |-> l.remaining,
     dinner_foods |-> l.dinner_foods,
     all_foods |-> l.all_foods,
     result |-> result]

\* the try block up to "if not result.success", and its except clause
Solve(r) ==
    /\ pc[r] = "solve"
    /\ LET l == local[r] IN
       \E result \in Minimize(l.all_foods, l.remaining,
                              ProteinPowderIdx(l.dinner_foods),
                              HeavyCreamIdx(l.dinner_foods)) :
          IF result.outcome = "raised" THEN
               /\ Respond(r, CalculationError(result.message))
               /\ UNCHANGED local
          ELSE IF ~result.success THEN
               /\ Respond(r, OptimizationFailed(result))
               /\ local' = [local EXCEPT ![r] = WithResult(l, result)]
          ELSE
               /\ local' = [local EXCEPT ![r] = WithResult(l, result)]
               /\ pc' = [pc EXCEPT ![r] = "format"]
               /\ UNCHANGED response
    /\ solverCalls' = [solverCalls EXCEPT ![r] = solverCalls[r] + 1]
    /\ UNCHANGED <<SCIPY_AVAILABLE, catalog, people, person_name, body,
                   parsed, touched>>

(***************************************************************************)
(* Formatting the result                                                   *)
(***************************************************************************)
\* "if servings > 0.001:  # Only show if significant"
Significant(servings) == servings > THRESHOLD

\* food.serving_name or "serving"
ServingName(food) == IF food.serving_name = "" THEN "serving" ELSE food.serving_name

\* an element of results["breakfast"], results["lunch"] or results["dinner"]
FoodEntry(food, servings) ==
    LET m == MacrosOf(food, servings) IN
    [food_id |-> food.id, food_name |-> food.name, servings |-> servings,
     serving_name |-> ServingName(food),
     protein |-> m.protein, carbs |-> m.carbs, fats |-> m.fats]

\* an element of results["supplements"]
SupplementEntry(name, food, servings) ==
    LET m == MacrosOf(food, servings) IN
    [name |-> name, servings |-> servings, serving_name |-> ServingName(food),
     protein |-> m.protein, carbs |-> m.carbs, fats |-> m.fats]

\* the breakfast and the lunch loops: every user-set entry is listed
FixedEntries(foods_servings) ==
    [i \in 1..Len(foods_servings) |->
        FoodEntry(foods_servings[i].food, foods_servings[i].servings)]

\* the dinner loop over dinner_indices: the entries it appends
DinnerEntries(dinner_foods, x) ==
    LET Shown(i) == Significant(x[i])
        idx == SelectSeq([i \in 1..Len(dinner_foods) |-> i], Shown)
    IN [k \in 1..Len(idx) |-> FoodEntry(dinner_foods[idx[k]], x[idx[k]])]

\* the two supplement blocks: the entries they append
SupplementEntries(protein_powder, heavy_cream, pp_servings, hc_servings) ==
    (IF Significant(pp_servings)
     THEN <<SupplementEntry("Protein Powder", protein_powder, pp_servings)>>
     ELSE <<>>)
    \o
    (IF Significant(hc_servings)
     THEN <<SupplementEntry("Heavy Cream", heavy_cream, hc_servings)>>
     ELSE <<>>)

\* faulty variant: the supplement blocks do not add to dinner_total
DinnerTotalFoodsOnly(dinner_entries, supplement_entries) ==
    SumTriples(dinner_entries)

\* dinner_total: accumulated inside the same "if" blocks that append the
\* entries, so it is the sum over the appended entries
DinnerTotal(dinner_entries, supplement_entries) ==
    AddTriple(SumTriples(dinner_entries), SumTriples(supplement_entries))

\* faulty variant: the division by 3.0 is missing
SlotGoalWhole(person) ==
    Triple(FloatOf(person.protein_grams), FloatOf(person.carbs_grams),
           FloatOf(person.fats_grams))

\* breakfast_goal and lunch_goal: float(person.x_grams) / 3.0
SlotGoal(person) ==
    Triple(FloatOf(person.protein_grams) \div 3,
           FloatOf(person.carbs_grams) \div 3,
           FloatOf(person.fats_grams) \div 3)

\* results["daily_goals"]
DailyGoals(person) ==
    Triple(FloatOf(person.protein_grams), FloatOf(person.carbs_grams),
           FloatOf(person.fats_grams))

\* the results dict handed to JsonResponse
Results(l) ==
    LET x == l.result.x
        breakfast == FixedEntries(l.breakfast_foods_servings)
        lunch == FixedEntries(l.lunch_foods_servings)
        dinner == DinnerEntries(l.dinner_foods, x)
        supplements ==
            SupplementEntries(l.protein_powder, l.heavy_cream,
                              x[ProteinPowderIdx(l.dinner_foods)],
                              x[HeavyCreamIdx(l.dinner_foods)])
        breakfast_total == SumTriples(breakfast)
        lunch_total == SumTriples(lunch)
        dinner_total == DinnerTotal(dinner, supplements)
    IN [kind |-> "ok",
        breakfast |-> breakfast, lunch |-> lunch, dinner |-> dinner,
        supplements |-> supplements,
        daily_totals |-> AddTriple(AddTriple(breakfast_total, lunch_total), dinner_total),
        daily_goals |-> DailyGoals(l.person),
        breakfast_total |-> breakfast_total,
        breakfast_goal |-> SlotGoal(l.person),
        lunch_total |-> lunch_total,
        lunch_goal |-> SlotGoal(l.person),
        dinner_total |-> dinner_total,
        dinner_goal |-> l.remaining]

\* "Format results with macro calculations" up to "return JsonResponse(results)"
Format(r) ==
    /\ pc[r] = "format"
    /\ Respond(r, Results(local[r]))
    /\ UNCHANGED <<SCIPY_AVAILABLE, catalog, people, person_name, body, local,
                   solverCalls, parsed, touched>>

\* the response has gone to the client and the call frame is dropped; the
\* worker is free for the next request
Return(r) ==
    /\ pc[r] = "done"
    /\ pc' = [pc EXCEPT ![r] = "idle"]
    /\ person_name' = [person_name EXCEPT ![r] = ""]
    /\ body' = [body EXCEPT ![r] = InvalidJSON]
    /\ local' = [local EXCEPT ![r] = NoLocal]
    /\ response' = [response EXCEPT ![r] = NoResponse]
    /\ solverCalls' = [solverCalls EXCEPT ![r] = 0]
    /\ parsed' = [parsed EXCEPT ![r] = FALSE]
    /\ touched' = [touched EXCEPT ![r] = FALSE]
    /\ UNCHANGED <<SCIPY_AVAILABLE, catalog, people>>

\* one worker serving the requests one after another, over all payloads
Next ==
    \E r \in {"r1"} :
        \/ Receive(r, PersonNames, Bodies)
        \/ CheckAndLoad(r)
        \/ GetOrCreateProteinPowder(r)
        \/ GetOrCreateHeavyCream(r)
        \/ Collect(r)
        \/ Solve(r)
        \/ Format(r)
        \/ Return(r)

Spec == Init /\ [][Next]_vars

\* two workers whose requests interleave at every database call
NextConc ==
    \E r \in Requests :
        \/ Receive(r, PersonNames, SmallBodies)
        \/ CheckAndLoad(r)
        \/ GetOrCreateProteinPowder(r)
        \/ GetOrCreateHeavyCream(r)
        \/ Collect(r)
        \/ Solve(r)
        \/ Format(r)
        \/ Return(r)

SpecConc == Init /\ [][NextConc]_vars

(***************************************************************************)
(* Properties                                                              *)
(***************************************************************************)
\* the handler of r has a result of minimize that reports success
Succeeded(r) == "result" \in DOMAIN local[r] /\ local[r].result.success
\* r has returned the breakdown
Ok(r) == pc[r] = "done" /\ response[r].kind = "ok"
\* r has got past the two get_or_create calls and through the selection checks
PastSelection(r) == touched[r] /\ pc[r] \in {"solve", "format", "done"}

SupplementNames == {"Protein Powder", "Heavy Cream"}
InsufficientErrors == {ERR_NO_DINNER, ERR_NO_VALID, ERR_ONLY_SUPPLEMENTS}

\* the dinner foods the request's ids resolve to are all supplements: true
\* also of an empty id list and of ids that resolve to nothing
NoRegularDinnerFood(r) ==
    LET foods == DinnerFoods(catalog, ParseDinnerIds(body[r].dinner))
    IN \A i \in 1..Len(foods) : foods[i].name \in SupplementNames

\* macro sums of the whole serving vector of r, all foods and both supplements
SumProtein(r) ==
    LET l == local[r] IN
    Total([i \in 1..Len(l.all_foods) |->
            l.result.x[i] * l.all_foods[i].protein_g_per_serving])
SumCarbs(r) ==
    LET l == local[r] IN
    Total([i \in 1..Len(l.all_foods) |->
            l.result.x[i] * l.all_foods[i].carbs_g_per_serving])
SumFats(r) ==
    LET l == local[r] IN
    Total([i \in 1..Len(l.all_foods) |->
            l.result.x[i] * l.all_foods[i].fats_g_per_serving])

\* C1: a request that reaches the selection checks with a dinner selection
\* that is empty, resolves to no active food or holds only supplement foods
\* ends in an insufficient-selection error and never calls the solver.
C1_InsufficientSelectionRejected ==
    \A r \in Requests :
        (PastSelection(r) /\ NoRegularDinnerFood(r)) =>
            /\ solverCalls[r] = 0
            /\ pc[r] = "done"
            /\ response[r].kind = "error"
            /\ response[r].error \in InsufficientErrors

ThePerson(r) == CHOOSE p \in people : p.name = person_name[r]
KnownPerson(r) == pc[r] # "idle" /\ \E p \in people : p.name = person_name[r]
AnyTargetUnset(person) ==
    \/ person.protein_grams = None
    \/ person.carbs_grams = None
    \/ person.fats_grams = None

\* what C2 asks of a request r for a person with an unset target
RejectedForTargets(r) ==
    /\ ~parsed[r]
    /\ ~touched[r]
    /\ solverCalls[r] = 0
    /\ pc[r] \in {"entry", "done"}
    /\ pc[r] = "done" => response[r] = ErrorResponse(ERR_TARGETS, "")

\* C2 as stated: a request for a person with an unset target is answered with
\* the missing-targets error, before the payload is parsed, the catalog is
\* touched or the solver is called.
C2_UnsetTargetRejected ==
    \A r \in Requests :
        (KnownPerson(r) /\ AnyTargetUnset(ThePerson(r))) => RejectedForTargets(r)

\* C2 as amended: the same, when scipy could be imported; without scipy the
\* request is answered with the scipy error before the person is looked at.
C2_UnsetTargetRejectedWithScipy ==
    \A r \in Requests :
        (SCIPY_AVAILABLE /\ KnownPerson(r) /\ AnyTargetUnset(ThePerson(r)))
            => RejectedForTargets(r)

C2_Witness ==
    \E r \in Requests :
        /\ SCIPY_AVAILABLE /\ KnownPerson(r) /\ AnyTargetUnset(ThePerson(r))
        /\ pc[r] = "done"
        /\ response[r] = ErrorResponse(ERR_TARGETS, "")
        /\ body[r].valid /\ body[r].dinner # <<>>

\* C3: in a successful solve every computed serving is >= 0, in the solver's
\* vector and in every dinner and supplement entry of the response.
C3_ServingsNonNegative ==
    \A r \in Requests :
        Succeeded(r) =>
            /\ \A i \in 1..Len(local[r].result.x) : local[r].result.x[i] >= 0
            /\ Ok(r) =>
                /\ \A i \in 1..Len(response[r].dinner) :
                        response[r].dinner[i].servings >= 0
                /\ \A i \in 1..Len(response[r].supplements) :
                        response[r].supplements[i].servings >= 0

C3_Witness ==
    \E r \in Requests :
        /\ Ok(r)
        /\ Len(response[r].dinner) > 0
        /\ Len(response[r].supplements) > 0

\* C4: after a successful solve the whole serving vector gives exactly the
\* remaining protein, exactly the remaining fat and at most the remaining
\* carbohydrate.
C4_ConstraintsMet ==
    \A r \in Requests :
        Succeeded(r) =>
            /\ SumProtein(r) = local[r].remaining.protein
            /\ SumFats(r) = local[r].remaining.fats
            /\ SumCarbs(r) <= local[r].remaining.carbs

C4_Witness ==
    \E r \in Requests :
        /\ Succeeded(r)
        /\ SumProtein(r) > 0
        /\ SumCarbs(r) < local[r].remaining.carbs

\* C5: minimize is called at most once per request, and a call that does not
\* succeed ends the request with an error that carries the solver's message
\* and no breakdown.
C5_OneSolveFailureSurfaced ==
    \A r \in Requests :
        /\ solverCalls[r] <= 1
        /\ (pc[r] = "done" /\ solverCalls[r] = 1 /\ ~Succeeded(r)) =>
            /\ response[r].kind = "error"
            /\ response[r].error \in {ERR_OPTIMIZATION, ERR_CALCULATION}
            /\ response[r].detail \in SolverFailures \cup {SolverException}
            /\ "result" \in DOMAIN local[r] =>
                    /\ response[r].error = ERR_OPTIMIZATION
                    /\ response[r].detail = local[r].result.message

C5_Witness ==
    \E r \in Requests :
        /\ pc[r] = "done" /\ solverCalls[r] = 1 /\ ~Succeeded(r)
        /\ response[r].error = ERR_OPTIMIZATION
        /\ response[r].detail = "Iteration limit reached"

\* C6: the reported dinner_total is the sum over all dinner foods and both
\* supplements of serving x macro, the entries left out of the breakdown
\* (serving <= 0.001) included, and daily_totals is built on it.
C6_TotalsCountOmittedServings ==
    \A r \in Requests :
        Ok(r) =>
            /\ response[r].dinner_total =
                    Triple(SumProtein(r), SumCarbs(r), SumFats(r))
            /\ response[r].daily_totals =
                    AddTriple(AddTriple(response[r].breakfast_total,
                                        response[r].lunch_total),
                              Triple(SumProtein(r), SumCarbs(r), SumFats(r)))

\* the allocations within the bounds that meet the budget of r
NonNegative == {v \in SearchValues : v >= 0}
MeetsBudget(r, y) ==
    LET l == local[r] IN
    /\ Total([i \in 1..Len(l.all_foods) |->
            y[i] * l.all_foods[i].protein_g_per_serving]) = l.remaining.protein
    /\ Total([i \in 1..Len(l.all_foods) |->
            y[i] * l.all_foods[i].fats_g_per_serving]) = l.remaining.fats
    /\ Total([i \in 1..Len(l.all_foods) |->
            y[i] * l.all_foods[i].carbs_g_per_serving]) <= l.remaining.carbs
Allocations(r) ==
    {y \in [1..Len(local[r].all_foods) -> NonNegative] : MeetsBudget(r, y)}
SupplementServings(r, y) ==
    y[ProteinPowderIdx(local[r].dinner_foods)] + y[HeavyCreamIdx(local[r].dinner_foods)]

\* C7: the objective is 1000 x (protein powder + heavy cream servings), and a
\* successful result has the least total supplement servings of all the
\* allocations that meet the budget; when the dinner foods alone meet it, the
\* supplements are at zero.
C7_SupplementsMinimal ==
    \A r \in Requests :
        Succeeded(r) =>
            LET x == local[r].result.x IN
            /\ objective(x, ProteinPowderIdx(local[r].dinner_foods),
                         HeavyCreamIdx(local[r].dinner_foods))
                    = 1000 * SupplementServings(r, x)
            /\ \A y \in Allocations(r) :
                    SupplementServings(r, x) <= SupplementServings(r, y)

C7_Witness ==
    \E r \in Requests :
        /\ Succeeded(r)
        /\ SupplementServings(r, local[r].result.x) = 0
        /\ \E i \in 1..Len(local[r].dinner_foods) : local[r].result.x[i] > 0
        /\ \E y \in Allocations(r) : SupplementServings(r, y) > 0

\* the breakfast and lunch entries of the payload that name an active food
\* and give a number of servings
AcceptedEntries(r) ==
    LET Accepted(item) ==
            /\ \E fd \in catalog : fd.id = item.food_id /\ fd.is_active
            /\ item.servings.t = "num"
    IN SelectSeq(body[r].breakfast \o body[r].lunch, Accepted)
FoodOf(item) == CHOOSE fd \in catalog : fd.id = item.food_id
\* daily target minus the fixed servings x per-serving macro, per macro
ExpectedBudget(r) ==
    LET e == AcceptedEntries(r)
        p == ThePerson(r)
    IN Triple(
        p.protein_grams[1] * SERVING_SCALE - Total([i \in 1..Len(e) |->
            e[i].servings.v * FoodOf(e[i]).protein_g_per_serving]),
        p.carbs_grams[1] * SERVING_SCALE - Total([i \in 1..Len(e) |->
            e[i].servings.v * FoodOf(e[i]).carbs_g_per_serving]),
        p.fats_grams[1] * SERVING_SCALE - Total([i \in 1..Len(e) |->
            e[i].servings.v * FoodOf(e[i]).fats_g_per_serving]))

\* C8: the budget handed to the solver, and reported as dinner_goal, is the
\* daily target minus the accepted breakfast and lunch servings x per-serving
\* macro, and stays that through the solve.
C8_BudgetIsTargetMinusFixed ==
    \A r \in Requests :
        /\ "remaining" \in DOMAIN local[r] => local[r].remaining = ExpectedBudget(r)
        /\ Ok(r) => response[r].dinner_goal = ExpectedBudget(r)

C8_Witness ==
    \E r \in Requests :
        /\ Ok(r)
        /\ Len(response[r].breakfast) > 0
        /\ Len(response[r].lunch) > 0
        /\ response[r].dinner_goal = ExpectedBudget(r)

\* C9 as stated: no step of any request changes the set of food records.
C9_CatalogNeverWritten == [][catalog' = catalog]_vars

\* C9 as amended: a request never changes or removes a food record, and adds
\* one only to create, from the defaults, a supplement no record is named
\* after; once both supplements exist no request changes the catalog.
C9_OnlyMissingSupplementsCreated ==
    [][ /\ catalog \subseteq catalog'
        /\ \A fd \in catalog' \ catalog :
            /\ fd.name \in SupplementNames
            /\ ByName(catalog, fd.name) = {}
            /\ fd \in {ProteinPowderDefaults(NextId(catalog)),
                       HeavyCreamDefaults(NextId(catalog))} ]_vars

C9_Witness ==
    /\ \A r \in Requests : pc[r] = "done" /\ touched[r]
    /\ \A n \in SupplementNames : ByName(catalog, n) # {}

\* C10 as stated: in a successful response breakfast_goal = breakfast_total,
\* lunch_goal = lunch_total and dinner_goal is the remaining budget.
C10_FixedSlotGoalsAreTotals ==
    \A r \in Requests :
        Ok(r) =>
            /\ response[r].breakfast_goal = response[r].breakfast_total
            /\ response[r].lunch_goal = response[r].lunch_total
            /\ response[r].dinner_goal = local[r].remaining

\* three times a reported slot goal is the person's daily target
ThirdOfTarget(goal, person) ==
    /\ 3 * goal.protein = person.protein_grams[1] * SERVING_SCALE
    /\ 3 * goal.carbs = person.carbs_grams[1] * SERVING_SCALE
    /\ 3 * goal.fats = person.fats_grams[1] * SERVING_SCALE

\* C10 as amended: breakfast_goal and lunch_goal are each one third of the
\* daily target, whatever was fixed for the slot, and dinner_goal is the
\* remaining budget.
C10_FixedSlotGoalsAreThirds ==
    \A r \in Requests :
        Ok(r) =>
            /\ ThirdOfTarget(response[r].breakfast_goal, ThePerson(r))
            /\ ThirdOfTarget(response[r].lunch_goal, ThePerson(r))
            /\ response[r].dinner_goal = local[r].remaining

C10_Witness ==
    \E r \in Requests :
        /\ Ok(r)
        /\ Len(response[r].breakfast) > 0
        /\ response[r].breakfast_goal # response[r].breakfast_total
        /\ ThirdOfTarget(response[r].breakfast_goal, ThePerson(r))

\* C11: a successful result accounts for every entry of the payload: each
\* breakfast and lunch entry is among the consumed entries and each dinner
\* element is a solver variable; an entry with an unknown or inactive food id
\* or unparseable servings never goes missing from a successful result.
C11_NoEntrySilentlyDropped ==
    \A r \in Requests :
        Ok(r) =>
            /\ Len(response[r].breakfast) = Len(body[r].breakfast)
            /\ Len(response[r].lunch) = Len(body[r].lunch)
            /\ Len(local[r].dinner_foods) = Len(body[r].dinner)

\* the payload's entries of one slot that name an active food and give a
\* number of servings, as macro triples
SlotMacros(items) ==
    LET Accepted(item) ==
            /\ \E fd \in catalog : fd.id = item.food_id /\ fd.is_active
            /\ item.servings.t = "num"
        e == SelectSeq(items, Accepted)
    IN [i \in 1..Len(e) |->
            Triple(e[i].servings.v * FoodOf(e[i]).protein_g_per_serving,
                   e[i].servings.v * FoodOf(e[i]).carbs_g_per_serving,
                   e[i].servings.v * FoodOf(e[i]).fats_g_per_serving)]
Plus(a, b) == Triple(a.protein + b.protein, a.carbs + b.carbs, a.fats + b.fats)
RECURSIVE SumOfTriples(_)
SumOfTriples(seq) ==
    IF seq = <<>> THEN Triple(0, 0, 0)
    ELSE Plus(SumOfTriples(Tail(seq)),
              Triple(Head(seq).protein, Head(seq).carbs, Head(seq).fats))

\* C12: in a successful response breakfast_total and lunch_total are the sums
\* over the fixed entries of their own slot, dinner_total is the sum of the
\* listed dinner entries plus the listed supplement entries, and daily_totals
\* is the sum of the three.
C12_SupplementsCountedInDinner ==
    \A r \in Requests :
        Ok(r) =>
            /\ response[r].breakfast_total = SumOfTriples(SlotMacros(body[r].breakfast))
            /\ response[r].lunch_total = SumOfTriples(SlotMacros(body[r].lunch))
            /\ response[r].dinner_total =
                    Plus(SumOfTriples(response[r].dinner),
                         SumOfTriples(response[r].supplements))
            /\ response[r].daily_totals =
                    Plus(Plus(response[r].breakfast_total, response[r].lunch_total),
                         response[r].dinner_total)

C12_Witness ==
    \E r \in Requests :
        /\ Ok(r)
        /\ Len(response[r].breakfast) > 0
        /\ Len(response[r].supplements) > 0
        /\ response[r].breakfast_total.protein > 0
        /\ response[r].dinner_total.protein > 0

AllTargetsSet(person) ==
    /\ person.protein_grams # None
    /\ person.carbs_grams # None
    /\ person.fats_grams # None

\* C13: with scipy present, a request for a person whose three targets are
\* all set, a target of 0 included, is never answered with the
\* missing-targets error.
C13_SetTargetsNotRejected ==
    \A r \in Requests :
        (SCIPY_AVAILABLE /\ KnownPerson(r) /\ AllTargetsSet(ThePerson(r))
            /\ pc[r] = "done")
            => response[r] # ErrorResponse(ERR_TARGETS, "")

\* the fixed servings of r exceed a daily target
OverTarget(r) ==
    \/ ExpectedBudget(r).protein < 0
    \/ ExpectedBudget(r).carbs < 0
    \/ ExpectedBudget(r).fats < 0
NonNegativeMacros(foods) ==
    \A i \in 1..Len(foods) :
        /\ foods[i].protein_g_per_serving >= 0
        /\ foods[i].carbs_g_per_serving >= 0
        /\ foods[i].fats_g_per_serving >= 0

====
